---- MODULE Spec2Model ----
(***************************************************************************)
(* Translation-class registry, translator selection, synthesized resolvers *)
(* (constant and trivial mappings), quantity_from_card and validate_value  *)
(* of astro_metadata_translator, together with the older lsst.obs.metadata *)
(* variant of the same engine.                                             *)
(***************************************************************************)
EXTENDS Integers, Sequences, FiniteSets, TLC

VARIABLES
    classes,      \* every translation class defined so far, in definition order
    translators,  \* MetadataTranslator.translators: insertion-ordered dict name -> class
    defLog,       \* history: one entry per registration performed by MetadataMeta.__init__
    selected,     \* outcome of the last determine_translator call
    variant,      \* which package the instance's class comes from: "amt" or "lsst"
    to_p,         \* resolver attached to the class as to_<p>
    live,         \* TRUE once an instance has been constructed around a header
    header,       \* self._header of the instance
    used,         \* self._used_cards of the instance
    last,         \* outcome of the last resolver invocation on the instance
    vv,           \* arguments and result of the last validate_value call
    clsBody,      \* the class statement of the instance's class, as written
    logged,       \* TRUE once the class definition has logged a warning
    instr,        \* the instrument translation class of the instance, if it is one
    snap,         \* the set handed out by the last cards_used() call
    info,         \* the ObservationInfo built around the instance
    registry,     \* MetadataTranslator.translators of the instrument classes, in order
    asked,        \* the last recognition-predicate or determineTranslator call
    twin          \* a second instance, alive next to the first

vars == <<classes, translators, defLog, selected, variant, to_p, live, header, used, last, vv,
          clsBody, logged, instr, snap, info, registry, asked, twin>>

regVars == <<classes, translators, defLog, selected>>
resVars == <<variant, to_p, live, header, used, last>>
clsVars == <<clsBody, logged>>
infoVars == <<instr, snap, info>>
selVars == <<registry, asked, twin>>

(***************************************************************************)
(* Bounds                                                                  *)
(***************************************************************************)
MaxClasses == 3

(***************************************************************************)
(* Registry and selector                                                   *)
(***************************************************************************)
Names == {"a", "b"}
Undeclared == "<undeclared>"   \* the class body has no ``name`` attribute
DeclNone == "<None>"           \* the class body says ``name = None``
Inherit == {"<inherit>"}         \* the class body does not override can_translate

HdrIds == {"h1", "h2"}
Predicates == {{"h1"}, {"h1", "h2"}}   \* a predicate is the set of headers it accepts

\* getattr(cls, "name"): the class's own attribute, else the nearest
\* ancestor's; the root class MetadataTranslator has no ``name`` attribute.
RECURSIVE AttrName(_, _)
AttrName(cs, c) ==
    IF c = 0 THEN Undeclared
    ELSE IF cs[c].name # Undeclared THEN cs[c].name
    ELSE AttrName(cs, cs[c].base)

\* cls.can_translate resolved through the base classes.
RECURSIVE CanOf(_, _)
CanOf(cs, c) ==
    IF c = 0 THEN {}
    ELSE IF cs[c].can # Inherit THEN cs[c].can
    ELSE CanOf(cs, cs[c].base)

can_translate(cs, c, h) == h \in CanOf(cs, c)

HasKey(d, k) == \E i \in 1..Len(d) : d[i].name = k

\* An assignment that moves a re-used key to the end of the dict.
DictSetMoveToEnd(d, k, v) ==
    Append(SelectSeq(d, LAMBDA e : e.name # k), [name |-> k, cls |-> v])

\* d[k] = v on an insertion-ordered dict: a new key is appended, an existing
\* key keeps its position and only its value is replaced.
DictSet(d, k, v) ==
    IF HasKey(d, k)
    THEN [i \in 1..Len(d) |-> IF d[i].name = k THEN [name |-> k, cls |-> v] ELSE d[i]]
    ELSE Append(d, [name |-> k, cls |-> v])

\* hasattr(cls, "name") and cls.name is not None
ShouldRegister(cs, c) == AttrName(cs, c) \notin {Undeclared, DeclNone}

\* MetadataMeta.__init__: the registration part of a class definition.
Registration(declName, base, can) ==
    /\ Len(classes) < MaxClasses
    /\ LET cs == Append(classes, [name |-> declName, base |-> base, can |-> can])
           c  == Len(cs)
       IN /\ classes' = cs
          /\ IF ShouldRegister(cs, c)
             THEN /\ translators' = DictSet(translators, AttrName(cs, c), c)
                  /\ defLog' = Append(defLog, [name |-> AttrName(cs, c), cls |-> c])
             ELSE UNCHANGED <<translators, defLog>>
    /\ selected' = [kind |-> "none", cls |-> 0, hdr |-> "h1"]

\* The definition of a translation class without mapping tables.
DefineClass(declName, base, can) ==
    /\ Registration(declName, base, can)
    /\ UNCHANGED <<resVars, vv, selVars, clsVars, infoVars>>

\* A scan without the for-else: when the loop runs out it hands back the
\* first registered class.
RECURSIVE ScanFallback(_, _, _, _)
ScanFallback(cs, d, h, i) ==
    IF i > Len(d)
    THEN IF Len(d) > 0 THEN [kind |-> "ok", cls |-> d[1].cls, hdr |-> h]
         ELSE [kind |-> "ValueError", cls |-> 0, hdr |-> h]
    ELSE IF can_translate(cs, d[i].cls, h) THEN [kind |-> "ok", cls |-> d[i].cls, hdr |-> h]
    ELSE ScanFallback(cs, d, h, i + 1)

\* for name, trans in cls.translators.items(): ... else: raise ValueError
RECURSIVE Scan(_, _, _, _)
Scan(cs, d, h, i) ==
    IF i > Len(d) THEN [kind |-> "ValueError", cls |-> 0, hdr |-> h]
    ELSE IF can_translate(cs, d[i].cls, h) THEN [kind |-> "ok", cls |-> d[i].cls, hdr |-> h]
    ELSE Scan(cs, d, h, i + 1)

determine_translator(cs, d, h) == Scan(cs, d, h, 1)

DetermineTranslator(h) ==
    /\ selected' = determine_translator(classes, translators, h)
    /\ UNCHANGED <<classes, translators, defLog, resVars, vv, selVars, clsVars, infoVars>>

(***************************************************************************)
(* Header values.  A value is a record [t, v, s]: t is the Python type,    *)
(* v the numeric magnitude, s the characters of a str.                     *)
(***************************************************************************)
None_ == [t |-> "none", v |-> 0, s |-> <<>>]
Absent == [t |-> "absent", v |-> 0, s |-> <<>>]   \* key not in the header
NaN == [t |-> "nan", v |-> 0, s |-> <<>>]         \* float("nan")
IntV(n) == [t |-> "int", v |-> n, s |-> <<>>]
FloatV(n) == [t |-> "float", v |-> n, s |-> <<>>]
StrV(s) == [t |-> "str", v |-> 0, s |-> s]

IsStr(x) == x.t = "str"                  \* isinstance(x, str)
IsFloat(x) == x.t \in {"float", "nan"}   \* isinstance(x, float)
IsNum(x) == x.t \in {"int", "float"}

DigitChars == <<"0", "1", "2", "3", "4", "5", "6", "7", "8", "9">>
IsDigit(c) == \E i \in 1..Len(DigitChars) : DigitChars[i] = c
DigitVal(c) == (CHOOSE i \in 1..Len(DigitChars) : DigitChars[i] = c) - 1

UpperLetters ==
    <<"A", "B", "C", "D", "E", "F", "G", "H", "I", "J", "K", "L", "M",
      "N", "O", "P", "Q", "R", "S", "T", "U", "V", "W", "X", "Y", "Z">>
LowerLetters ==
    <<"a", "b", "c", "d", "e", "f", "g", "h", "i", "j", "k", "l", "m",
      "n", "o", "p", "q", "r", "s", "t", "u", "v", "w", "x", "y", "z">>
IsUpper(c) == \E i \in 1..Len(UpperLetters) : UpperLetters[i] = c   \* matches [A-Z]
LetterIndex(c) == CHOOSE i \in 1..Len(UpperLetters) : UpperLetters[i] = c

Lower(c) == IF IsUpper(c) THEN LowerLetters[LetterIndex(c)] ELSE c

RECURSIVE StripLeft(_)
StripLeft(s) == IF s # <<>> /\ Head(s) = " " THEN StripLeft(Tail(s)) ELSE s

RECURSIVE StripRight(_)
StripRight(s) ==
    IF s # <<>> /\ s[Len(s)] = " " THEN StripRight(SubSeq(s, 1, Len(s) - 1)) ELSE s

RECURSIVE DigitsValue(_, _)
DigitsValue(s, acc) ==
    IF s = <<>> THEN acc ELSE DigitsValue(Tail(s), 10 * acc + DigitVal(Head(s)))

AllDigits(s) == s # <<>> /\ \A i \in 1..Len(s) : IsDigit(s[i])
IsNanWord(s) == Len(s) = 3 /\ [i \in 1..3 |-> Lower(s[i])] = <<"n", "a", "n">>

StrLower(s) == [i \in 1..Len(s) |-> Lower(s[i])]     \* str.lower()
Strip(s) == StripRight(StripLeft(s))                  \* str.strip()

\* float(<str>): blanks are stripped, an optional sign, then decimal digits
\* or the word "nan" in any letter case; anything else is a ValueError.
ParseFloat(s) ==
    LET b    == StripRight(StripLeft(s))
        neg  == b # <<>> /\ Head(b) = "-"
        body == IF b # <<>> /\ Head(b) \in {"-", "+"} THEN Tail(b) ELSE b
    IN IF IsNanWord(body) THEN [err |-> "none", val |-> NaN]
       ELSE IF AllDigits(body)
       THEN [err |-> "none",
             val |-> FloatV(IF neg THEN 0 - DigitsValue(body, 0) ELSE DigitsValue(body, 0))]
       ELSE [err |-> "ValueError", val |-> None_]

\* float(x)
PyFloat(x) ==
    IF IsStr(x) THEN ParseFloat(x.s)
    ELSE IF x.t = "int" THEN [err |-> "none", val |-> FloatV(x.v)]
    ELSE IF IsFloat(x) THEN [err |-> "none", val |-> x]
    ELSE [err |-> "TypeError", val |-> None_]

RECURSIVE NatDigits(_)
NatDigits(n) ==
    IF n < 10 THEN <<DigitChars[n + 1]>>
    ELSE Append(NatDigits(n \div 10), DigitChars[(n % 10) + 1])

IntDigits(n) == IF n < 0 THEN <<"-">> \o NatDigits(0 - n) ELSE NatDigits(n)

\* str(x): "150" for an int, "150.0" for a float, "nan" for not-a-number
PyStr(x) ==
    IF IsStr(x) THEN x
    ELSE IF x.t = "int" THEN StrV(IntDigits(x.v))
    ELSE IF x.t = "float" THEN StrV(IntDigits(x.v) \o <<".", "0">>)
    ELSE IF x.t = "nan" THEN StrV(<<"n", "a", "n">>)
    ELSE StrV(<<"N", "o", "n", "e">>)

(***************************************************************************)
(* validate_value                                                          *)
(***************************************************************************)
\* Out-of-range values clamped to the violated bound.
validate_value_clamp(value, default, minimum, maximum) ==
    IF IsStr(value) THEN [err |-> "TypeError", val |-> None_]
    ELSE IF value.t = "none" \/ value.t = "nan" THEN [err |-> "none", val |-> default]
    ELSE IF minimum.t # "none" /\ value.v < minimum.v THEN [err |-> "none", val |-> minimum]
    ELSE IF maximum.t # "none" /\ value.v > maximum.v THEN [err |-> "none", val |-> maximum]
    ELSE [err |-> "none", val |-> value]

\* math.isnan raises TypeError on a str; otherwise None and not-a-number
\* give the default, and so does a value below minimum or above maximum.
validate_value(value, default, minimum, maximum) ==
    IF IsStr(value) THEN [err |-> "TypeError", val |-> None_]
    ELSE IF value.t = "none" \/ value.t = "nan" THEN [err |-> "none", val |-> default]
    ELSE IF minimum.t # "none" /\ value.v < minimum.v THEN [err |-> "none", val |-> default]
    ELSE IF maximum.t # "none" /\ value.v > maximum.v THEN [err |-> "none", val |-> default]
    ELSE [err |-> "none", val |-> value]

(***************************************************************************)
(* Headers and mapping-table entries                                       *)
(***************************************************************************)
Keys == {"HUMIDITY", "RELHUM", "BAZ"}

S150 == <<"1", "5", "0">>
S50b == <<" ", "5", "0", " ">>
SNaN == <<"N", "a", "N">>
Sabc == <<"a", "b", "c">>
Sbar == <<"b", "a", "r">>

HumidityValues ==
    {Absent, IntV(0 - 5), IntV(0), FloatV(50), IntV(100), IntV(150), NaN,
     StrV(S150), StrV(S50b), StrV(SNaN), StrV(Sabc)}
RelhumValues == {Absent, FloatV(50), IntV(150), StrV(Sabc)}
BazValues == {Absent, StrV(Sbar)}

Headers ==
    {h \in [Keys -> HumidityValues \cup BazValues] :
        /\ h["RELHUM"] \in RelhumValues
        /\ h["BAZ"] \in BazValues
        /\ h["HUMIDITY"] \in HumidityValues}

EmptyHeader == [k \in Keys |-> Absent]

KeyLists == {<<"HUMIDITY">>, <<"RELHUM">>, <<"HUMIDITY", "RELHUM">>, <<"RELHUM", "HUMIDITY">>}
Defaults == {None_, FloatV(40)}
Minimums == {None_, IntV(0)}
Maximums == {None_, FloatV(100)}
Units == {"none", "percent"}      \* "none" is unit=None
ReturnTypes == {"str", "float", "other"}   \* declared type of the property in PROPERTIES
Unknown == "<unknown>"                      \* the property is not in PROPERTIES
PropertyTypes == ReturnTypes \cup {Unknown}

\* return_type of _make_trivial_mapping: the declared type, or a
\* documentation string when the property is not in PROPERTIES
FallbackType == "str or numbers.Number"
ReturnTypeOf(declared) == IF declared = Unknown THEN FallbackType ELSE declared

\* return_type of _make_const_mapping: the declared type, or the name of the
\* constant's type when the property is not in PROPERTIES
ConstReturnTypeOf(declared, constant) == IF declared = Unknown THEN constant.t ELSE declared
Constants == {StrV(<<"H", "D", "F", "5">>), IntV(7)}

\* a resolver is the closure's kind and the values it closes over
Resolver(kind, keys, default, minimum, maximum, unit, rtype, constant, property) ==
    [kind |-> kind, keys |-> keys, default |-> default, minimum |-> minimum,
     maximum |-> maximum, unit |-> unit, rtype |-> rtype, constant |-> constant,
     property |-> property]

\* the closure returned by _make_abstract_translator_method(property)
MakeAbstractTranslatorMethod(property) ==
    Resolver("abstract", <<>>, None_, None_, None_, "none", "other", None_, property)

\* the closure returned by _make_stub_translator_method(property)
MakeStubTranslatorMethod(property) ==
    Resolver("stub", <<>>, None_, None_, None_, "none", "other", None_, property)

\* lsst.obs.metadata: the root class has no to_<property> attribute at all
MissingResolver(property) ==
    Resolver("missing", <<>>, None_, None_, None_, "none", "other", None_, property)

\* to_p of the root class MetadataTranslator
AbstractResolver == MakeAbstractTranslatorMethod("p")

\* ``def to_p(self): return "X"`` written in the class body
HandWritten ==
    Resolver("hand", <<>>, None_, None_, None_, "none", "other", StrV(<<"X">>), "p")

\* the closure returned by _make_const_mapping
MakeConstMapping(rtype, constant) ==
    Resolver("const", <<>>, None_, None_, None_, "none", rtype, constant, "p")

\* the closure returned by _make_trivial_mapping; rtype is PROPERTIES[property_key][1]
MakeTrivialMapping(rtype, keys, default, minimum, maximum, unit) ==
    Resolver("trivial", keys, default, minimum, maximum, unit, rtype, None_, "p")

\* what a call returns: outcome kind, value, attached unit, self._used_cards
\* afterwards, and whether warnings.warn was called
Out(kind, val, unit, usd) ==
    [kind |-> kind, val |-> val, unit |-> unit, used |-> usd, warn |-> FALSE]

\* A tracker that forgets what it held and keeps only the new names.
used_these_cards_replace(usd, args) == args

\* A tracker that drops a name it is given for the second time.
used_these_cards_toggle(usd, args) == (usd \ args) \cup (args \ usd)

\* self._used_cards.update(set(args))
used_these_cards(usd, args) == usd \cup args

Present(hdr, k) == k \in DOMAIN hdr /\ hdr[k] # Absent     \* k in self._header

\* Index of the last candidate present in the header, 0 if none.
LastPresent(hdr, keys) ==
    IF \E i \in 1..Len(keys) : Present(hdr, keys[i])
    THEN CHOOSE i \in 1..Len(keys) :
            /\ Present(hdr, keys[i])
            /\ \A j \in (i + 1)..Len(keys) : ~Present(hdr, keys[j])
    ELSE 0

\* for key in keywords: if key in self._header: ... break
\* Index of the first candidate present in the header, 0 if the loop runs out.
FirstPresent(hdr, keys) ==
    IF \E i \in 1..Len(keys) : Present(hdr, keys[i])
    THEN CHOOSE i \in 1..Len(keys) :
            /\ Present(hdr, keys[i])
            /\ \A j \in 1..(i - 1) : ~Present(hdr, keys[j])
    ELSE 0

\* u.Quantity(value, unit): the magnitude is held as a float
Magnitude(x) == IF x.t = "int" THEN FloatV(x.v) ELSE x

(***************************************************************************)
(* quantity_from_card                                                      *)
(***************************************************************************)
\* A variant that falls back to the default when no candidate is present.
quantity_from_card_default_absent(hdr, usd, keywords, unit, default, minimum, maximum) ==
    LET i == FirstPresent(hdr, keywords) IN
    IF i = 0
    THEN IF default.t # "none" THEN Out("ok", Magnitude(default), unit, usd)
         ELSE Out("KeyError", None_, "none", usd)
    ELSE LET raw == hdr[keywords[i]]
             f   == IF IsStr(raw) THEN PyFloat(raw) ELSE [err |-> "none", val |-> raw]
         IN IF f.err # "none" THEN Out(f.err, None_, "none", usd)
            ELSE LET v == IF default.t # "none"
                          THEN validate_value(f.val, default, minimum, maximum).val
                          ELSE f.val
                 IN Out("ok", Magnitude(v), unit, used_these_cards(usd, {keywords[i]}))

\* A variant that validates only values stored as numbers.
quantity_from_card_text_unvalidated(hdr, usd, keywords, unit, default, minimum, maximum) ==
    LET i == FirstPresent(hdr, keywords) IN
    IF i = 0 THEN Out("KeyError", None_, "none", usd)
    ELSE LET raw == hdr[keywords[i]]
             f   == IF IsStr(raw) THEN PyFloat(raw) ELSE [err |-> "none", val |-> raw]
         IN IF f.err # "none" THEN Out(f.err, None_, "none", usd)
            ELSE LET v == IF default.t # "none" /\ ~IsStr(raw)
                          THEN validate_value(f.val, default, minimum, maximum).val
                          ELSE f.val
                 IN Out("ok", Magnitude(v), unit, used_these_cards(usd, {keywords[i]}))

quantity_from_card(hdr, usd, keywords, unit, default, minimum, maximum) ==
    LET i == FirstPresent(hdr, keywords) IN
    IF i = 0 THEN Out("KeyError", None_, "none", usd)
    ELSE LET raw == hdr[keywords[i]]
             f   == IF IsStr(raw) THEN PyFloat(raw) ELSE [err |-> "none", val |-> raw]
         IN IF f.err # "none" THEN Out(f.err, None_, "none", usd)
            ELSE LET v == IF default.t # "none"
                          THEN validate_value(f.val, default, minimum, maximum).val
                          ELSE f.val
                 IN Out("ok", Magnitude(v), unit, used_these_cards(usd, {keywords[i]}))

\* lsst.obs.metadata: a single keyword, read with self._header[keyword]
lsst_quantity_from_card(hdr, usd, keyword, unit, default, minimum, maximum) ==
    IF ~Present(hdr, keyword) THEN Out("KeyError", None_, "none", usd)
    ELSE LET raw == hdr[keyword]
             f   == IF IsStr(raw) THEN PyFloat(raw) ELSE [err |-> "none", val |-> raw]
         IN IF f.err # "none" THEN Out(f.err, None_, "none", usd)
            ELSE LET v == IF default.t # "none"
                          THEN validate_value(f.val, default, minimum, maximum).val
                          ELSE f.val
                 IN Out("ok", Magnitude(v), unit, used_these_cards(usd, {keyword}))

(***************************************************************************)
(* Synthesized resolvers                                                   *)
(***************************************************************************)
\* A constant resolver that records the candidate-less property as a read.
constant_translator_reads(r, hdr, usd) ==
    IF Present(hdr, "BAZ") THEN Out("ok", hdr["BAZ"], "none", usd \cup {"BAZ"})
    ELSE Out("KeyError", None_, "none", usd)

\* def constant_translator(self): return constant
constant_translator(r, hdr, usd) == Out("ok", r.constant, "none", usd)

\* A resolver that hands back the value without any type coercion.
CoerceNever(value, rtype, usd) == Out("ok", value, "none", usd)

\* The final type coercion of trivial_translator.
Coerce(value, rtype, usd) ==
    IF rtype = "str" /\ ~IsStr(value) THEN Out("ok", PyStr(value), "none", usd)
    ELSE IF rtype = "float" /\ ~IsFloat(value)
    THEN LET f == PyFloat(value)
         IN IF f.err # "none" THEN Out(f.err, None_, "none", usd)
            ELSE Out("ok", f.val, "none", usd)
    ELSE Out("ok", value, "none", usd)

\* A trivial resolver whose unit branch does not delegate: it handles the
\* absent field itself before reading the quantity.
trivial_translator_own_unit(r, hdr, usd) ==
    IF r.unit # "none"
    THEN quantity_from_card_default_absent(hdr, usd, r.keys, r.unit, r.default, r.minimum, r.maximum)
    ELSE LET i == FirstPresent(hdr, r.keys) IN
         IF i = 0
         THEN IF r.default.t # "none" THEN Coerce(r.default, r.rtype, usd)
              ELSE Out("KeyError", None_, "none", usd)
         ELSE LET raw == hdr[r.keys[i]]
                  v   == IF r.default.t # "none" /\ ~IsStr(raw)
                         THEN validate_value(raw, r.default, r.minimum, r.maximum).val
                         ELSE raw
              IN Coerce(v, r.rtype, used_these_cards(usd, {r.keys[i]}))

\* A trivial resolver that treats a card it has already used as consumed.
trivial_translator_consuming(r, hdr, usd) ==
    LET left == [k \in DOMAIN hdr |-> IF k \in usd THEN Absent ELSE hdr[k]] IN
    IF r.unit # "none"
    THEN quantity_from_card(left, usd, r.keys, r.unit, r.default, r.minimum, r.maximum)
    ELSE LET i == FirstPresent(left, r.keys) IN
         IF i = 0
         THEN IF r.default.t # "none" THEN Coerce(r.default, r.rtype, usd)
              ELSE Out("KeyError", None_, "none", usd)
         ELSE LET raw == left[r.keys[i]]
                  v   == IF r.default.t # "none" /\ ~IsStr(raw)
                         THEN validate_value(raw, r.default, r.minimum, r.maximum).val
                         ELSE raw
              IN Coerce(v, r.rtype, used_these_cards(usd, {r.keys[i]}))

\* astro_metadata_translator: trivial_translator
trivial_translator(r, hdr, usd) ==
    IF r.unit # "none"
    THEN quantity_from_card(hdr, usd, r.keys, r.unit, r.default, r.minimum, r.maximum)
    ELSE LET i == FirstPresent(hdr, r.keys) IN
         IF i = 0
         THEN IF r.default.t # "none" THEN Coerce(r.default, r.rtype, usd)
              ELSE Out("KeyError", None_, "none", usd)
         ELSE LET raw == hdr[r.keys[i]]
                  v   == IF r.default.t # "none" /\ ~IsStr(raw)
                         THEN validate_value(raw, r.default, r.minimum, r.maximum).val
                         ELSE raw
              IN Coerce(v, r.rtype, used_these_cards(usd, {r.keys[i]}))

\* lsst.obs.metadata: trivial_translator (single header key, no type coercion)
lsst_trivial_translator(r, hdr, usd) ==
    IF r.unit # "none"
    THEN lsst_quantity_from_card(hdr, usd, r.keys[1], r.unit, r.default, r.minimum, r.maximum)
    ELSE IF ~Present(hdr, r.keys[1]) THEN Out("KeyError", None_, "none", usd)
    ELSE LET raw == hdr[r.keys[1]]
             v   == IF r.default.t # "none"
                    THEN validate_value(raw, r.default, r.minimum, r.maximum)
                    ELSE [err |-> "none", val |-> raw]
         IN IF v.err # "none" THEN Out(v.err, None_, "none", usd)
            ELSE Out("ok", v.val, "none", used_these_cards(usd, {r.keys[1]}))

\* An abstract resolver that reports the missing translation as a missing field.
to_property_keyerror(r, hdr, usd) == Out("KeyError", StrV(<<r.property>>), "none", usd)

\* def to_property(self): raise NotImplementedError(f"Translator for '{property}' undefined.")
\* The value of the outcome is the property the message names.
to_property(r, hdr, usd) == Out("NotImplementedError", StrV(<<r.property>>), "none", usd)

\* A stub that fails like the abstract resolver.
to_stub_raises(r, hdr, usd) == Out("NotImplementedError", StrV(<<r.property>>), "none", usd)

\* def to_stub(self): warnings.warn(...); return None
to_stub(r, hdr, usd) == [Out("ok", None_, "none", usd) EXCEPT !.warn = TRUE]

\* getattr(translator, "to_<property>")()
CallResolver(var, r, hdr, usd) ==
    IF r.kind = "const" THEN constant_translator(r, hdr, usd)
    ELSE IF r.kind = "trivial"
    THEN IF var = "amt" THEN trivial_translator(r, hdr, usd)
         ELSE lsst_trivial_translator(r, hdr, usd)
    ELSE IF r.kind = "stub" THEN to_stub(r, hdr, usd)
    ELSE IF r.kind = "hand" THEN Out("ok", r.constant, "none", usd)
    ELSE IF r.kind = "missing" THEN Out("AttributeError", StrV(<<r.property>>), "none", usd)
    ELSE to_property(r, hdr, usd)

\* foobar -> BAZ, the plain trivial mapping of the test translator
ToQ == MakeTrivialMapping("other", <<"BAZ">>, None_, None_, None_, "none")

NoCall ==
    [prop |-> "none", kind |-> "none", val |-> None_, unit |-> "none", warn |-> FALSE,
     before |-> {}]

\* what the last invocation of to_<prop> did, and self._used_cards before it
Call(prop, o, before) ==
    [prop |-> prop, kind |-> o.kind, val |-> o.val, unit |-> o.unit, warn |-> o.warn,
     before |-> before]

\* the class statement: base class, ``name`` attribute, the kind of mapping
\* table holding property p, whether p is in PROPERTIES, and whether the
\* body has a ``def to_p(self)`` of its own
ClassBody(parent, name, map, known, hand) ==
    [parent |-> parent, name |-> name, map |-> map, known |-> known, hand |-> hand]

NoBody == ClassBody("none", Undeclared, "none", TRUE, FALSE)

Parents == {"MetadataTranslator", "StubTranslator"}
ClassNames == {"a", Undeclared}     \* the ``name`` of the class body

\* to_<property> as a class without an entry for the property finds it
Inherited(var, parent, property) ==
    IF var = "lsst" THEN MissingResolver(property)
    ELSE IF parent = "StubTranslator" THEN MakeStubTranslatorMethod(property)
    ELSE MakeAbstractTranslatorMethod(property)

\* A compiler that skips the entries of properties it does not know.
SetAttrKnownOnly(inherited, known, translator) == IF known THEN translator ELSE inherited

\* setattr(cls, f"to_{property_key}", translator): done for every entry of
\* the table, whether or not the property is in PROPERTIES
SetAttr(inherited, known, translator) == translator

\* log.warning(f"Unrecognized property '{property_key}' being assigned")
LogsWarning(var, declared) == var = "amt" /\ declared = Unknown

NoSnap == [called |-> FALSE, alias |-> FALSE, val |-> {}, at |-> {}]
NoInfo == [state |-> "none", strip |-> "none", hdr |-> <<>>]

(***************************************************************************)
(* Operations on a translation class and its instance                      *)
(***************************************************************************)
\* MetadataMeta.__init__ for a class deriving from MetadataTranslator whose
\* _trivial_map has an entry for property p; declared is the type PROPERTIES
\* gives for p, or Unknown.  lsst.obs.metadata consults no declared type.
CompileTrivial(var, n, declared, keys, default, minimum, maximum, unit) ==
    /\ clsBody = NoBody
    /\ var = "lsst" => (Len(keys) = 1 /\ declared \in {"other", Unknown})
    /\ Registration(n, 0, {"h1"})
    /\ variant' = var
    /\ clsBody' = ClassBody("MetadataTranslator", n, "trivial", declared # Unknown, FALSE)
    /\ logged' = LogsWarning(var, declared)
    /\ to_p' = SetAttr(Inherited(var, "MetadataTranslator", "p"), declared # Unknown,
                       MakeTrivialMapping(IF var = "amt" THEN ReturnTypeOf(declared) ELSE "other",
                                          keys, default, minimum, maximum, unit))
    /\ UNCHANGED <<live, header, used, last, vv, selVars, infoVars>>

\* MetadataMeta.__init__ for a class deriving from MetadataTranslator whose
\* _const_map has an entry for property p
CompileConst(var, n, declared, constant) ==
    /\ clsBody = NoBody
    /\ var = "lsst" => declared \in {"other", Unknown}
    /\ Registration(n, 0, {"h1"})
    /\ variant' = var
    /\ clsBody' = ClassBody("MetadataTranslator", n, "const", declared # Unknown, FALSE)
    /\ logged' = LogsWarning(var, declared)
    /\ to_p' = SetAttr(Inherited(var, "MetadataTranslator", "p"), declared # Unknown,
                       MakeConstMapping(IF var = "amt" THEN ConstReturnTypeOf(declared, constant)
                                        ELSE "other",
                                        constant))
    /\ UNCHANGED <<live, header, used, last, vv, selVars, infoVars>>

\* MetadataMeta.__init__ for a class whose mapping tables have no entry for
\* property p: to_p is what the parent class provides
CompileBare(var, parent, n) ==
    /\ clsBody = NoBody
    /\ var = "lsst" => parent = "MetadataTranslator"   \* no StubTranslator there
    /\ Registration(n, 0, {"h1"})
    /\ variant' = var
    /\ clsBody' = ClassBody(parent, n, "none", TRUE, FALSE)
    /\ logged' = FALSE
    /\ to_p' = Inherited(var, parent, "p")
    /\ UNCHANGED <<live, header, used, last, vv, selVars, infoVars>>

\* The tables a class with a hand-written to_p can see as cls._trivial_map or
\* cls._const_map: none that maps p, its own trivial or constant entry for p,
\* or the entry of an ancestor whose table the body does not redeclare
HandTables == {"none", "trivial", "const", "inherited"}

\* MetadataMeta.__init__ for a class whose body defines to_p by hand: the
\* method is in the class when the loops over cls._trivial_map and
\* cls._const_map run, and setattr is done for every entry they find
CompileHand(var, table) ==
    /\ clsBody = NoBody
    /\ Registration("a", 0, {"h1"})
    /\ variant' = var
    /\ clsBody' = ClassBody("MetadataTranslator", "a", table, TRUE, TRUE)
    /\ logged' = FALSE
    /\ to_p' = CASE table = "none" -> HandWritten
                  [] table = "const" ->
                       SetAttr(HandWritten, TRUE, MakeConstMapping("other", StrV(<<"H", "D", "F", "5">>)))
                  [] OTHER ->
                       SetAttr(HandWritten, TRUE,
                               MakeTrivialMapping("other", <<"HUMIDITY">>, None_, None_, None_, "none"))
    /\ UNCHANGED <<live, header, used, last, vv, selVars, infoVars>>

\* MetadataTranslator.__init__(self, header)
Construct(h) ==
    /\ ~live
    /\ clsBody # NoBody
    /\ live' = TRUE
    /\ header' = h
    /\ used' = {}
    /\ last' = NoCall
    /\ UNCHANGED <<regVars, variant, to_p, vv, selVars, clsVars, infoVars>>

InvokeP ==
    /\ live
    /\ LET o == CallResolver(variant, to_p, header, used)
       IN /\ used' = o.used
          /\ last' = Call("p", o, used)
    /\ UNCHANGED <<regVars, variant, to_p, live, header, vv, selVars, clsVars, infoVars>>

InvokeQ ==
    /\ live
    /\ LET o == CallResolver(variant, ToQ, header, used)
       IN /\ used' = o.used
          /\ last' = Call("q", o, used)
    /\ UNCHANGED <<regVars, variant, to_p, live, header, vv, selVars, clsVars, infoVars>>

\* to_r: a property that no mapping table of the class mentions
InvokeR ==
    /\ live
    /\ LET o == CallResolver(variant, Inherited(variant, clsBody.parent, "r"), header, used)
       IN /\ used' = o.used
          /\ last' = Call("r", o, used)
    /\ UNCHANGED <<regVars, variant, to_p, live, header, vv, selVars, clsVars, infoVars>>

(***************************************************************************)
(* Direct calls of the static method validate_value                        *)
(***************************************************************************)
ValidateValues == {None_, NaN, IntV(0 - 5), IntV(0), FloatV(50), IntV(100), FloatV(150)}
ValidateDefaults == {None_, FloatV(40), IntV(0 - 1)}
ValidateMinimums == {None_, IntV(0), FloatV(60)}
ValidateMaximums == {None_, FloatV(100), IntV(20)}

NoValidate ==
    [called |-> FALSE, value |-> None_, default |-> None_, minimum |-> None_,
     maximum |-> None_, err |-> "none", val |-> None_]

Validate(value, default, minimum, maximum) ==
    /\ LET o == validate_value(value, default, minimum, maximum)
       IN vv' = [called |-> TRUE, value |-> value, default |-> default,
                 minimum |-> minimum, maximum |-> maximum, err |-> o.err, val |-> o.val]
    /\ UNCHANGED <<regVars, resVars, clsVars, infoVars, selVars>>

(***************************************************************************)
(* Instrument translation classes: the resolvers written by hand           *)
(***************************************************************************)
\* an object built by astropy from the given text parts
Obj(tag, parts) == [t |-> tag, v |-> 0, s |-> parts]

ForProperty(r, property) == [r EXCEPT !.property = property]

\* FitsTranslator._from_fits_date(dateKey)
from_fits_date(hdr, usd, dateKey) ==
    LET hasScale == Present(hdr, "TIMESYS")
        scale    == IF hasScale THEN StrLower(hdr["TIMESYS"].s) ELSE <<"u", "t", "c">>
        cards    == IF hasScale THEN {dateKey, "TIMESYS"} ELSE {dateKey}
    IN IF ~Present(hdr, dateKey) THEN Out("KeyError", None_, "none", usd)
       ELSE Out("ok", Obj("Time", hdr[dateKey].s \o <<"/">> \o scale), "none",
                used_these_cards(usd, cards))

\* FitsTranslator.to_location
fits_to_location(hdr, usd) ==
    IF \E c \in {"OBSGEO-X", "OBSGEO-Y", "OBSGEO-Z"} : ~Present(hdr, c)
    THEN Out("KeyError", None_, "none", usd)
    ELSE Out("ok", Obj("EarthLocation", <<>>), "none",
             used_these_cards(usd, {"OBSGEO-X", "OBSGEO-Y", "OBSGEO-Z"}))

\* DecamTranslator.to_location
decam_to_location(hdr, usd) ==
    IF \E c \in {"OBS-LONG", "OBS-LAT", "OBS-ELEV"} : ~Present(hdr, c)
    THEN Out("KeyError", None_, "none", usd)
    ELSE Out("ok", Obj("EarthLocation", <<>>), "none",
             used_these_cards(usd, {"OBS-LONG", "OBS-LAT", "OBS-ELEV"}))

\* DecamTranslator.to_pressure: quantity_from_card of lsst.obs.metadata has
\* no ``scaling`` parameter, so the call raises TypeError
decam_to_pressure(hdr, usd) == Out("TypeError", None_, "none", usd)

\* DecamTranslator.to_tracking_radec: the arguments of SkyCoord are evaluated
\* in order, to_datetime_begin and to_location among them
decam_to_tracking_radec(hdr, usd) ==
    LET hasSys == Present(hdr, "RADESYS")
        frame  == IF hasSys THEN StrLower(Strip(hdr["RADESYS"].s)) ELSE <<"i", "c", "r", "s">>
    IN IF hasSys /\ frame = <<"g", "a", "p", "p", "t">>
       THEN Out("ok", None_, "none", used_these_cards(usd, {"RADESYS"}))
       ELSE IF ~Present(hdr, "TELRA") \/ ~Present(hdr, "TELDEC")
       THEN Out("KeyError", None_, "none", usd)
       ELSE LET t == from_fits_date(hdr, usd, "DATE-OBS") IN
            IF t.kind # "ok" THEN Out(t.kind, None_, "none", t.used)
            ELSE LET l == decam_to_location(hdr, t.used) IN
                 IF l.kind # "ok" THEN Out(l.kind, None_, "none", l.used)
                 ELSE Out("ok", Obj("SkyCoord", frame), "none",
                          used_these_cards(l.used, {"RADESYS", "TELRA", "TELDEC"}))

HSC == <<"H", "S", "C">>
SUP == <<"S", "U", "P">>

\* re.search("^HSCE(\d{8})$", s)
MatchHscNew(s) ==
    Len(s) = 12 /\ SubSeq(s, 1, 4) = HSC \o <<"E">> /\ AllDigits(SubSeq(s, 5, 12))

\* re.search("^HSC([A-Z])(\d{6})00$", s)
MatchHscOld(s) ==
    /\ Len(s) = 12
    /\ SubSeq(s, 1, 3) = HSC
    /\ IsUpper(s[4])
    /\ AllDigits(SubSeq(s, 5, 10))
    /\ SubSeq(s, 11, 12) = <<"0", "0">>

\* re.search("^HSC([A-Z])(\d{6})\d{2}$", s)
MatchHscFrame(s) ==
    Len(s) = 12 /\ SubSeq(s, 1, 3) = HSC /\ IsUpper(s[4]) /\ AllDigits(SubSeq(s, 5, 12))

\* re.search(r"^SUP[A-Z](\d{7})0$", s)
MatchSupExp(s) ==
    /\ Len(s) = 12
    /\ SubSeq(s, 1, 3) = SUP
    /\ IsUpper(s[4])
    /\ AllDigits(SubSeq(s, 5, 11))
    /\ s[12] = "0"

\* re.search(r"^SUP[A-Z](\d{7})\d{1}$", s)
MatchSupFrame(s) ==
    Len(s) = 12 /\ SubSeq(s, 1, 3) = SUP /\ IsUpper(s[4]) /\ AllDigits(SubSeq(s, 5, 12))

\* visit + 1000000*(ord(letter) - ord("A"))
HscExposure(letter, visit) == IntV(visit + 1000000 * (LetterIndex(letter) - 1))

\* HscTranslator.to_exposure
hsc_to_exposure(hdr, usd) ==
    IF ~Present(hdr, "EXP-ID") THEN Out("KeyError", None_, "none", usd)
    ELSE IF ~IsStr(hdr["EXP-ID"]) THEN Out("AttributeError", None_, "none", usd)   \* no .strip()
    ELSE LET expId == Strip(hdr["EXP-ID"].s) IN
         IF MatchHscNew(expId)
         THEN Out("ok", IntV(DigitsValue(SubSeq(expId, 5, 12), 0)), "none",
                  used_these_cards(usd, {"EXP-ID"}))
         ELSE IF ~MatchHscOld(expId) THEN Out("RuntimeError", None_, "none", usd)
         ELSE IF DigitsValue(SubSeq(expId, 5, 10), 0) # 0
         THEN Out("ok", HscExposure(expId[4], DigitsValue(SubSeq(expId, 5, 10), 0)), "none",
                  used_these_cards(usd, {"EXP-ID", "FRAMEID"}))
         ELSE IF ~Present(hdr, "FRAMEID") THEN Out("KeyError", None_, "none", usd)
         ELSE IF ~IsStr(hdr["FRAMEID"]) THEN Out("AttributeError", None_, "none", usd)
         ELSE LET frameId == Strip(hdr["FRAMEID"].s)
                  v       == DigitsValue(SubSeq(frameId, 5, 10), 0)
              IN IF ~MatchHscFrame(frameId) THEN Out("RuntimeError", None_, "none", usd)
                 ELSE Out("ok", HscExposure(frameId[4], IF v % 2 = 1 THEN v - 1 ELSE v), "none",
                          used_these_cards(usd, {"EXP-ID", "FRAMEID"}))

\* SuprimeCamTranslator.to_exposure_id (astro_metadata_translator); its
\* caching decorator hands back the value of an earlier successful call,
\* which is what running the method again gives
suprimecam_to_exposure_id(hdr, usd) ==
    IF ~Present(hdr, "EXP-ID") THEN Out("KeyError", None_, "none", usd)
    ELSE IF ~IsStr(hdr["EXP-ID"]) THEN Out("AttributeError", None_, "none", usd)   \* no .strip()
    ELSE LET exp_id == Strip(hdr["EXP-ID"].s) IN
         IF ~MatchSupExp(exp_id) THEN Out("RuntimeError", None_, "none", usd)
         ELSE IF DigitsValue(SubSeq(exp_id, 5, 11), 0) # 0
         THEN Out("ok", IntV(DigitsValue(SubSeq(exp_id, 5, 11), 0)), "none",
                  used_these_cards(usd, {"EXP-ID", "FRAMEID"}))
         ELSE IF ~Present(hdr, "FRAMEID") THEN Out("KeyError", None_, "none", usd)
         ELSE IF ~IsStr(hdr["FRAMEID"]) THEN Out("AttributeError", None_, "none", usd)
         ELSE LET frame_id == Strip(hdr["FRAMEID"].s) IN
              IF ~MatchSupFrame(frame_id) THEN Out("RuntimeError", None_, "none", usd)
              ELSE Out("ok", IntV(DigitsValue(SubSeq(frame_id, 5, 11), 0)), "none",
                       used_these_cards(usd, {"EXP-ID", "FRAMEID"}))

\* MegaPrimeTranslator.to_tracking_radec.  self._used_cards is the set, not a
\* method: calling it raises TypeError.  Otherwise the arguments of SkyCoord
\* are evaluated in order, to_datetime_begin (DATE-OBS, UTC-OBS) and
\* to_location (LONGITUD, LATITUDE) among them.
megaprime_to_tracking_radec(hdr, usd) ==
    IF ~Present(hdr, "OBJRADEC") THEN Out("KeyError", None_, "none", usd)
    ELSE LET frame == StrLower(Strip(hdr["OBJRADEC"].s)) IN
         IF frame = <<"g", "a", "p", "p", "t">> THEN Out("TypeError", None_, "none", usd)
         ELSE IF ~Present(hdr, "RA_DEG") \/ ~Present(hdr, "DEC_DEG")
         THEN Out("KeyError", None_, "none", usd)
         ELSE IF ~Present(hdr, "DATE-OBS") \/ ~Present(hdr, "UTC-OBS")
         THEN Out("KeyError", None_, "none", usd)
         ELSE LET t == used_these_cards(usd, {"DATE-OBS", "UTC-OBS"}) IN
              IF ~Present(hdr, "LONGITUD") \/ ~Present(hdr, "LATITUDE")
              THEN Out("KeyError", None_, "none", t)
              ELSE Out("ok", Obj("SkyCoord", frame), "none",
                       used_these_cards(used_these_cards(t, {"LONGITUD", "LATITUDE"}),
                                        {"OBJRADEC", "RA_DEG", "DEC_DEG"}))

\* The translation classes: "fits" is FitsTranslator, "test" is
\* InstrumentTestTranslator, a FitsTranslator; ObservationInfo belongs to
\* lsst.obs.metadata and so do all of them but SuprimeCam.
InstrClasses == {"fits", "test", "decam", "hsc", "suprimecam", "megaprime"}
InfoClasses == {"fits", "test", "decam", "hsc"}

\* The resolvers of each class, in the order of ObservationInfo._PROPERTIES.
\* For the instrument classes these are the hand-written resolvers above and
\* what they call; a property without a resolver costs ObservationInfo an
\* AttributeError, which it swallows.
PropertiesOf(cls) ==
    CASE cls \in {"fits", "test"} -> <<"telescope", "instrument", "location",
                                       "datetime_begin", "datetime_end">>
      [] cls = "decam" -> <<"location", "datetime_begin", "pressure", "tracking_radec">>
      [] cls = "hsc" -> <<"instrument", "exposure">>
      [] cls = "suprimecam" -> <<"exposure_id">>
      [] cls = "megaprime" -> <<"tracking_radec">>
      [] OTHER -> <<>>

\* _trivialMap = {"foobar": "BAZ", "telescope": "TELCODE"} over FitsTranslator
TestTelescope ==
    ForProperty(MakeTrivialMapping("other", <<"TELCODE">>, None_, None_, None_, "none"),
                "telescope")
\* _trivialMap = dict(instrument="INSTRUME", telescope="TELESCOP")
FitsInstrument ==
    ForProperty(MakeTrivialMapping("other", <<"INSTRUME">>, None_, None_, None_, "none"),
                "instrument")
FitsTelescope ==
    ForProperty(MakeTrivialMapping("other", <<"TELESCOP">>, None_, None_, None_, "none"),
                "telescope")
\* _constMap = {"instrument": "HSC", ...}
HscInstrument == ForProperty(MakeConstMapping("other", StrV(HSC)), "instrument")

\* the class a translation class derives from; "root" is MetadataTranslator
ParentOf(cls) == IF cls \in {"test", "decam", "megaprime"} THEN "fits" ELSE "root"

\* A compiler whose setattr lands on the class that first declared the
\* property: the subclass's entry replaces the ancestor's resolver.
SynthesizedOnDeclarer(cls, prop) ==
    CASE cls \in {"fits", "test"} /\ prop = "telescope" -> TestTelescope
      [] cls = "fits" /\ prop = "instrument" -> FitsInstrument
      [] cls = "hsc" /\ prop = "instrument" -> HscInstrument
      [] OTHER -> MissingResolver(prop)

\* setattr(cls, f"to_{standardKey}", translator) for the entries of the
\* class's own _trivialMap and _constMap: what the class itself holds
Synthesized(cls, prop) ==
    CASE cls = "fits" /\ prop = "telescope" -> FitsTelescope
      [] cls = "fits" /\ prop = "instrument" -> FitsInstrument
      [] cls = "test" /\ prop = "telescope" -> TestTelescope
      [] cls = "hsc" /\ prop = "instrument" -> HscInstrument
      [] OTHER -> MissingResolver(prop)

\* cls.to_<prop>: the class's own attribute, else the nearest ancestor's
RECURSIVE ClassAttr(_, _)
ClassAttr(cls, prop) ==
    IF cls = "root" THEN MissingResolver(prop)
    ELSE IF Synthesized(cls, prop).kind # "missing" THEN Synthesized(cls, prop)
    ELSE ClassAttr(ParentOf(cls), prop)

\* getattr(translator, f"to_{prop}")() on an instance of class cls
CallInstr(cls, prop, hdr, usd) ==
    CASE cls \in {"fits", "test", "decam"} /\ prop \in {"telescope", "instrument"} ->
             CallResolver("lsst", ClassAttr(cls, prop), hdr, usd)
      [] cls \in {"fits", "test"} /\ prop = "location" -> fits_to_location(hdr, usd)
      [] cls \in {"fits", "test"} /\ prop = "datetime_begin" ->
             from_fits_date(hdr, usd, "DATE-OBS")
      [] cls \in {"fits", "test"} /\ prop = "datetime_end" ->
             from_fits_date(hdr, usd, "DATE-END")
      [] cls = "megaprime" /\ prop = "tracking_radec" -> megaprime_to_tracking_radec(hdr, usd)
      [] cls = "decam" /\ prop = "location" -> decam_to_location(hdr, usd)
      [] cls = "decam" /\ prop = "datetime_begin" -> from_fits_date(hdr, usd, "DATE-OBS")
      [] cls = "decam" /\ prop = "pressure" -> decam_to_pressure(hdr, usd)
      [] cls = "decam" /\ prop = "tracking_radec" -> decam_to_tracking_radec(hdr, usd)
      [] cls = "hsc" /\ prop = "instrument" ->
             CallResolver("lsst", ClassAttr(cls, prop), hdr, usd)
      [] cls = "hsc" /\ prop = "exposure" -> hsc_to_exposure(hdr, usd)
      [] cls = "suprimecam" /\ prop = "exposure_id" -> suprimecam_to_exposure_id(hdr, usd)
      [] OTHER -> Out("AttributeError", None_, "none", usd)

\* Headers of the instrument classes
SJcmt == <<"J", "C", "M", "T">>
SLsst == <<"L", "S", "S", "T">>
SScuba == <<"S", "C", "U", "B", "A">>
SDate == <<"2", "0", "0", "0", "-", "0", "1", "-", "0", "1">>
SDateEnd == <<"2", "0", "0", "0", "-", "0", "1", "-", "0", "2">>
SUtc == <<"U", "T", "C">>
SGappt == <<" ", "G", "A", "P", "P", "T">>
SFk5 == <<"F", "K", "5">>
SHscNew == HSC \o <<"E", "0", "0", "0", "0", "0", "1", "2", "3">>
SHscOld == HSC \o <<"A", "0", "0", "0", "1", "2", "3", "0", "0">>
SHscZero == HSC \o <<"B", "0", "0", "0", "0", "0", "0", "0", "0">>
SHscFrame == HSC \o <<"B", "0", "0", "0", "1", "2", "3", "4", "5">>
SSupExp == SUP \o <<"A", "0", "0", "0", "1", "2", "3", "4", "0">>
SSupZero == SUP \o <<"A", "0", "0", "0", "0", "0", "0", "0", "0">>
SSupFrame == SUP \o <<"A", "0", "0", "0", "1", "2", "3", "4", "5">>
SJunk == <<"X", "Y", "Z">>

Opt(x) == {Absent, x}

\* the header of the test case, with some of its fields left out
TestHeaders ==
    {("TELESCOP" :> StrV(SJcmt) @@ "TELCODE" :> code @@ "INSTRUME" :> ins @@
      "OBSGEO-X" :> IntV(1) @@ "OBSGEO-Y" :> IntV(1) @@ "OBSGEO-Z" :> z @@
      "DATE-OBS" :> obs @@ "DATE-END" :> StrV(SDateEnd) @@ "TIMESYS" :> sys) :
        code \in Opt(StrV(SLsst)), ins \in Opt(StrV(SScuba)), z \in Opt(IntV(1)),
        obs \in Opt(StrV(SDate)), sys \in Opt(StrV(SUtc))}

DecamHeaders ==
    {("RADESYS" :> sys @@ "TELRA" :> ra @@ "TELDEC" :> IntV(1) @@
      "DATE-OBS" :> obs @@ "TIMESYS" :> ts @@ "OBS-LONG" :> lon @@
      "OBS-LAT" :> IntV(1) @@ "OBS-ELEV" :> IntV(1)) :
        sys \in {Absent, StrV(SGappt), StrV(SFk5)}, ra \in Opt(IntV(1)),
        obs \in Opt(StrV(SDate)), ts \in Opt(StrV(SUtc)), lon \in Opt(IntV(1))}

HscHeaders ==
    {("EXP-ID" :> e @@ "FRAMEID" :> f) :
        e \in {Absent, StrV(SHscNew), StrV(SHscOld), StrV(SHscZero), StrV(SJunk)},
        f \in {Absent, StrV(SHscFrame), StrV(SJunk)}}

SuprimeCamHeaders ==
    {("EXP-ID" :> e @@ "FRAMEID" :> f) :
        e \in {Absent, StrV(SSupExp), StrV(SSupZero), StrV(SJunk)},
        f \in {Absent, StrV(SSupFrame), StrV(SJunk)}}

MegaPrimeHeaders ==
    {("OBJRADEC" :> sys @@ "RA_DEG" :> ra @@ "DEC_DEG" :> IntV(1) @@
      "DATE-OBS" :> obs @@ "UTC-OBS" :> StrV(SUtc) @@ "LONGITUD" :> lon @@
      "LATITUDE" :> IntV(1)) :
        sys \in {Absent, StrV(SGappt), StrV(SFk5)}, ra \in Opt(IntV(1)),
        obs \in Opt(StrV(SDate)), lon \in Opt(IntV(1))}

HeadersOf(cls) ==
    CASE cls \in {"fits", "test"} -> TestHeaders
      [] cls = "megaprime" -> MegaPrimeHeaders
      [] cls = "decam" -> DecamHeaders
      [] cls = "hsc" -> HscHeaders
      [] OTHER -> SuprimeCamHeaders

(***************************************************************************)
(* ObservationInfo and the used-fields snapshot                            *)
(***************************************************************************)
\* the loop of ObservationInfo.__init__ from property i on: AttributeError and
\* KeyError are swallowed, any other error ends the construction
RECURSIVE TranslateAll(_, _, _, _)
TranslateAll(cls, i, hdr, usd) ==
    IF i > Len(PropertiesOf(cls)) THEN [state |-> "ok", used |-> usd]
    ELSE LET o == CallInstr(cls, PropertiesOf(cls)[i], hdr, usd) IN
         IF o.kind \in {"ok", "KeyError", "AttributeError"}
         THEN TranslateAll(cls, i + 1, hdr, o.used)
         ELSE [state |-> o.kind, used |-> o.used]

\* A cards_used that hands out the live set itself.
cards_used_alias(usd) == [called |-> TRUE, alias |-> TRUE, val |-> usd, at |-> usd]

\* return frozenset(self._used_cards): a copy; ``at`` remembers what had been
\* recorded when the call was made
cards_used(usd) == [called |-> TRUE, alias |-> FALSE, val |-> usd, at |-> usd]

\* A strippedHeader that deletes from the mapping the caller supplied.
stripped_header_in_place(hdr, usd) ==
    LET cut == [k \in DOMAIN hdr |-> IF k \in usd THEN Absent ELSE hdr[k]] IN
    IF \E c \in usd : ~Present(hdr, c) THEN [kind |-> "KeyError", hdr |-> <<>>, orig |-> cut]
    ELSE [kind |-> "ok", hdr |-> cut, orig |-> cut]

\* hdr = copy.copy(self._header); for c in used: del hdr[c].  The deletions
\* are made in the copy; ``orig`` is self._header after the call.
stripped_header(hdr, usd) ==
    IF \E c \in usd : ~Present(hdr, c) THEN [kind |-> "KeyError", hdr |-> <<>>, orig |-> hdr]
    ELSE [kind |-> "ok", hdr |-> [k \in DOMAIN hdr |-> IF k \in usd THEN Absent ELSE hdr[k]],
          orig |-> hdr]

\* cls(header): an instance of an instrument translation class
ConstructInstr(cls, h) ==
    /\ ~live
    /\ instr = "none"
    /\ instr' = cls
    /\ live' = TRUE
    /\ header' = h
    /\ used' = {}
    /\ last' = NoCall
    /\ UNCHANGED <<regVars, variant, to_p, vv, selVars, clsVars, snap, info>>

\* ObservationInfo(header, translator_class=cls)
ConstructInfo(cls, h) ==
    /\ ~live
    /\ instr = "none"
    /\ instr' = cls
    /\ header' = h
    /\ LET r == TranslateAll(cls, 1, h, {})
       IN /\ info' = [state |-> r.state, strip |-> "none", hdr |-> <<>>]
          /\ live' = (r.state = "ok")
          /\ used' = r.used
    /\ UNCHANGED <<regVars, variant, to_p, last, vv, selVars, clsVars, snap>>

\* translator.to_<prop>() on an instance held directly
InvokeInstr(prop) ==
    /\ live
    /\ info.state = "none"
    /\ \E i \in 1..Len(PropertiesOf(instr)) : PropertiesOf(instr)[i] = prop
    /\ LET o == CallInstr(instr, prop, header, used)
       IN /\ used' = o.used
          /\ last' = Call(prop, o, used)
    /\ UNCHANGED <<regVars, variant, to_p, live, header, vv, selVars, clsVars, infoVars>>

\* translator.cards_used(), or the cards_used property of ObservationInfo
CardsUsed ==
    /\ live
    /\ snap' = cards_used(used)
    /\ UNCHANGED <<regVars, resVars, vv, selVars, clsVars, instr, info>>

\* ObservationInfo.strippedHeader()
StrippedHeader ==
    /\ live
    /\ info.state = "ok"
    /\ LET r == stripped_header(header, used)
       IN /\ info' = [info EXCEPT !.strip = r.kind, !.hdr = r.hdr]
          /\ header' = r.orig
    /\ UNCHANGED <<regVars, variant, to_p, live, used, last, vv, selVars, clsVars, instr, snap>>

(***************************************************************************)
(* Recognition predicates, the selector over the instrument classes, and   *)
(* a second instance                                                       *)
(***************************************************************************)
SHyper ==
    <<"H", "y", "p", "e", "r", " ", "S", "u", "p", "r", "i", "m", "e", "-", "C", "a", "m">>
SSuprimeCam == <<"S", "u", "p", "r", "i", "m", "e", "C", "a", "m">>
SDecam == <<"D", "E", "C", "a", "m">>

\* cls.supportedInstrument; None in FitsTranslator, which inherits it from
\* the root class
SupportedInstrument(cls) ==
    CASE cls = "test" -> StrV(SScuba)
      [] cls = "decam" -> StrV(SDecam)
      [] OTHER -> None_

\* An instance whose _used_cards is one set held by the class: every
\* instance starts with what the others have recorded.
NewUsedCardsShared(existing) == [set |-> existing, shares |-> TRUE]

\* self._used_cards = set(): a new, empty set object of the instance's own;
\* ``existing`` is what the set of another instance holds at that time
NewUsedCards(existing) == [set |-> {}, shares |-> FALSE]

\* A comparison that lets the missing-field error out.
compare_instrument_uncaught(o, supported) ==
    IF o.kind # "ok" THEN [kind |-> o.kind, val |-> FALSE, tmp |-> o.used]
    ELSE [kind |-> "ok", val |-> (o.val = supported), tmp |-> o.used]

\* try: instrument = translator.to_instrument() / except KeyError: return False
\* / return instrument == cls.supportedInstrument, where ``o`` is the outcome
\* of to_instrument()
compare_instrument(o, supported) ==
    IF o.kind = "KeyError" THEN [kind |-> "ok", val |-> FALSE, tmp |-> o.used]
    ELSE IF o.kind # "ok" THEN [kind |-> o.kind, val |-> FALSE, tmp |-> o.used]
    ELSE [kind |-> "ok", val |-> (o.val = supported), tmp |-> o.used]

\* FitsTranslator.canTranslate: translator = cls(header) is a temporary
\* instance; ``tmp`` is its _used_cards when the predicate returns
fits_canTranslate(cls, hdr, existing) ==
    IF SupportedInstrument(cls) = None_ THEN [kind |-> "ok", val |-> FALSE, tmp |-> {}]
    ELSE compare_instrument(CallInstr(cls, "instrument", hdr, NewUsedCards(existing).set),
                            SupportedInstrument(cls))

\* str.startswith(prefix)
StartsWith(s, prefix) == Len(s) >= Len(prefix) /\ SubSeq(s, 1, Len(prefix)) = prefix

\* HscTranslator.canTranslate and SuprimeCamTranslator.can_translate: the
\* value of INSTRUME when the header has it, else the prefix of EXP-ID and of
\* FRAMEID.  A value that is not a str has no startswith method.
subaru_can_translate(hdr, instrument, prefix) ==
    IF Present(hdr, "INSTRUME")
    THEN [kind |-> "ok", val |-> (hdr["INSTRUME"] = StrV(instrument)), tmp |-> {}]
    ELSE IF Present(hdr, "EXP-ID") /\ ~IsStr(hdr["EXP-ID"])
    THEN [kind |-> "AttributeError", val |-> FALSE, tmp |-> {}]
    ELSE IF Present(hdr, "EXP-ID") /\ StartsWith(hdr["EXP-ID"].s, prefix)
    THEN [kind |-> "ok", val |-> TRUE, tmp |-> {}]
    ELSE IF Present(hdr, "FRAMEID") /\ ~IsStr(hdr["FRAMEID"])
    THEN [kind |-> "AttributeError", val |-> FALSE, tmp |-> {}]
    ELSE [kind |-> "ok",
          val |-> (Present(hdr, "FRAMEID") /\ StartsWith(hdr["FRAMEID"].s, prefix)),
          tmp |-> {}]

\* cls.canTranslate(header)
CanTranslateOf(cls, hdr, existing) ==
    CASE cls = "hsc" -> subaru_can_translate(hdr, SHyper, HSC)
      [] cls = "suprimecam" -> subaru_can_translate(hdr, SSuprimeCam, SUP)
      [] OTHER -> fits_canTranslate(cls, hdr, existing)

\* for name, trans in cls.translators.items(): if trans.canTranslate(header):
\* return trans ... else: raise ValueError.  Nothing is caught.
RECURSIVE determine_instr(_, _, _)

\* one turn of the loop: ``c`` is the outcome of trans.canTranslate(header)
determine_turn(c, reg, hdr, i) ==
    IF c.kind # "ok" THEN [kind |-> c.kind, cls |-> "none"]
    ELSE IF c.val THEN [kind |-> "ok", cls |-> reg[i]]
    ELSE determine_instr(reg, hdr, i + 1)

determine_instr(reg, hdr, i) ==
    IF i > Len(reg) THEN [kind |-> "ValueError", cls |-> "none"]
    ELSE determine_turn(CanTranslateOf(reg[i], hdr, {}), reg, hdr, i)

\* the classes with a ``name``, which register; FitsTranslator has none
SelectClasses == {"test", "hsc", "suprimecam"}
PredClasses == {"fits", "test", "decam", "hsc", "suprimecam"}

\* headers as the selector sees them: values are str or int
SelectHeaders ==
    {("INSTRUME" :> ins @@ "EXP-ID" :> e @@ "FRAMEID" :> f @@
      "TELESCOP" :> StrV(SJcmt) @@ "TELCODE" :> StrV(SLsst)) :
        ins \in {Absent, StrV(SScuba), StrV(SHyper), IntV(7)},
        e \in {Absent, StrV(SHscOld), IntV(123)},
        f \in Opt(StrV(SSupFrame))}

\* a header other than the one supplied first
OtherHeader ==
    ("INSTRUME" :> StrV(SScuba) @@ "EXP-ID" :> StrV(SHscNew) @@ "FRAMEID" :> Absent @@
     "TELESCOP" :> Absent @@ "TELCODE" :> StrV(SJcmt))

NoAsked == [op |-> "none", cls |-> "none", kind |-> "none", val |-> FALSE, tmp |-> {}]

\* ``first`` and ``alone`` are what the first and the second instance would
\* hold as used fields had each been invoked without the other
NoTwin ==
    [live |-> FALSE, cls |-> "none", hdr |-> <<>>, used |-> {}, shares |-> FALSE,
     prop |-> "none", kind |-> "none", val |-> None_, first |-> {}, alone |-> {}]

Supplied == header # EmptyHeader

\* the definition of a named instrument class, before any header is seen
RegisterInstr(cls) ==
    /\ ~Supplied
    /\ \A i \in 1..Len(registry) : registry[i] # cls
    /\ registry' = Append(registry, cls)
    /\ UNCHANGED <<regVars, resVars, vv, clsVars, infoVars, asked, twin>>

\* the caller builds the header mapping that every later call is given
Supply(h) ==
    /\ ~Supplied
    /\ header' = h
    /\ UNCHANGED <<regVars, variant, to_p, live, used, last, vv, clsVars, infoVars, selVars>>

\* cls.canTranslate(header).  A temporary instance that shared its set with
\* the live instance would leave its fields there.
CanTranslate(cls) ==
    /\ Supplied
    /\ \E c \in {CanTranslateOf(cls, header, used)} :
          /\ asked' = [op |-> "can", cls |-> cls, kind |-> c.kind, val |-> c.val, tmp |-> c.tmp]
          /\ used' = IF live /\ NewUsedCards(used).shares THEN c.tmp ELSE used
    /\ UNCHANGED <<regVars, variant, to_p, live, header, last, vv, clsVars, infoVars,
                   registry, twin>>

\* MetadataTranslator.determineTranslator(header)
DetermineInstr ==
    /\ Supplied
    /\ \E d \in {determine_instr(registry, header, 1)} :
          asked' = [op |-> "determine", cls |-> d.cls, kind |-> d.kind, val |-> d.kind = "ok",
                    tmp |-> {}]
    /\ UNCHANGED <<regVars, resVars, vv, clsVars, infoVars, registry, twin>>

\* ObservationInfo(header): the translation class is the one the selector
\* returns, and an error of the selector ends the construction
ConstructAuto ==
    /\ Supplied
    /\ ~live
    /\ instr = "none"
    /\ \A i \in 1..Len(registry) : registry[i] \in InfoClasses
    /\ \E d \in {determine_instr(registry, header, 1)} :
          IF d.kind = "ok"
          THEN ConstructInfo(d.cls, header)
          ELSE /\ info' = [state |-> d.kind, strip |-> "none", hdr |-> <<>>]
               /\ instr' = "unknown"
               /\ UNCHANGED <<regVars, resVars, vv, clsVars, snap, selVars>>

\* translator = cls(header) on the header supplied, after any predicate calls
ConstructFirst(cls) ==
    /\ Supplied
    /\ ~live
    /\ instr = "none"
    /\ instr' = cls
    /\ live' = TRUE
    /\ used' = NewUsedCards(asked.tmp).set
    /\ last' = NoCall
    /\ twin' = [twin EXCEPT !.first = {}]
    /\ UNCHANGED <<regVars, variant, to_p, header, vv, clsVars, snap, info, registry, asked>>

\* a second instance, over the same header or over another one
ConstructTwin(cls, h) ==
    /\ live
    /\ ~twin.live
    /\ LET n == NewUsedCards(used)
       IN twin' = [twin EXCEPT !.live = TRUE, !.cls = cls, !.hdr = h, !.used = n.set,
                               !.shares = n.shares, !.alone = {}]
    /\ UNCHANGED <<regVars, resVars, vv, clsVars, infoVars, registry, asked>>

\* to_<prop>() on the first instance while the second is alive
InvokeOne(prop) ==
    /\ live
    /\ twin.live
    /\ \E i \in 1..Len(PropertiesOf(instr)) : PropertiesOf(instr)[i] = prop
    /\ LET o == CallInstr(instr, prop, header, used)
       IN /\ used' = o.used
          /\ last' = Call(prop, o, used)
          /\ twin' = [twin EXCEPT !.used = IF twin.shares THEN o.used ELSE @,
                                  !.first = CallInstr(instr, prop, header, @).used]
    /\ UNCHANGED <<regVars, variant, to_p, live, header, vv, clsVars, infoVars, registry, asked>>

\* to_<prop>() on the second instance
InvokeTwin(prop) ==
    /\ twin.live
    /\ \E i \in 1..Len(PropertiesOf(twin.cls)) : PropertiesOf(twin.cls)[i] = prop
    /\ LET o == CallInstr(twin.cls, prop, twin.hdr, twin.used)
       IN /\ twin' = [twin EXCEPT !.used = o.used, !.prop = prop, !.kind = o.kind,
                                  !.val = o.val,
                                  !.alone = CallInstr(twin.cls, prop, twin.hdr, @).used]
          /\ used' = IF twin.shares THEN o.used ELSE used
    /\ UNCHANGED <<regVars, variant, to_p, live, header, last, vv, clsVars, infoVars,
                   registry, asked>>

(***************************************************************************)
(* Specifications                                                          *)
(***************************************************************************)
Init ==
    /\ classes = <<>>
    /\ translators = <<>>
    /\ defLog = <<>>
    /\ selected = [kind |-> "none", cls |-> 0, hdr |-> "h1"]
    /\ variant = "amt"
    /\ to_p = AbstractResolver
    /\ live = FALSE
    /\ header = EmptyHeader
    /\ used = {}
    /\ last = NoCall
    /\ vv = NoValidate
    /\ clsBody = NoBody
    /\ logged = FALSE
    /\ instr = "none"
    /\ snap = NoSnap
    /\ info = NoInfo
    /\ registry = <<>>
    /\ asked = NoAsked
    /\ twin = NoTwin

\* Class definitions and translator selection.
Next ==
    \/ \E n \in Names \cup {Undeclared, DeclNone}, b \in 0..Len(classes),
          p \in Predicates \cup {Inherit} :
          /\ (b = 0 => p # Inherit)    \* can_translate is abstract in the root class
          /\ DefineClass(n, b, p)
    \/ \E h \in HdrIds : DetermineTranslator(h)

Spec == Init /\ [][Next]_vars

\* The class bodies tried: an entry for a property outside PROPERTIES is a
\* bare field name in a named or unnamed class, as in the test translator;
\* classes mapping a property of PROPERTIES are named.
PlainIfUnknown(n, declared, default, minimum, maximum, unit) ==
    IF declared = Unknown
    THEN default = None_ /\ minimum = None_ /\ maximum = None_ /\ unit = "none"
    ELSE n = "a"

\* One class with a synthesized resolver, one instance, resolver invocations.
NextResolver ==
    \/ /\ clsBody = NoBody
       /\ \E var \in {"amt", "lsst"}, n \in ClassNames, t \in PropertyTypes, ks \in KeyLists,
             d \in Defaults, mn \in Minimums, mx \in Maximums, u \in Units :
             /\ PlainIfUnknown(n, t, d, mn, mx, u)
             /\ CompileTrivial(var, n, t, ks, d, mn, mx, u)
    \/ /\ clsBody = NoBody
       /\ \E var \in {"amt", "lsst"}, n \in ClassNames, t \in PropertyTypes, c \in Constants :
             /\ PlainIfUnknown(n, t, None_, None_, None_, "none")
             /\ CompileConst(var, n, t, c)
    \/ /\ clsBody = NoBody
       /\ \E var \in {"amt", "lsst"}, par \in Parents, n \in ClassNames :
             CompileBare(var, par, n)
    \/ /\ clsBody = NoBody
       /\ \E var \in {"amt", "lsst"}, tb \in HandTables : CompileHand(var, tb)
    \/ /\ ~live
       /\ \E h \in Headers : Construct(h)
    \/ InvokeP
    \/ InvokeQ
    \/ InvokeR

SpecResolver == Init /\ [][NextResolver]_vars

\* Instances of the instrument classes, held directly or inside an
\* ObservationInfo.
NextInstrument ==
    \/ /\ instr = "none"
       /\ \E cls \in InstrClasses : \E h \in HeadersOf(cls) : ConstructInstr(cls, h)
    \/ /\ instr = "none"
       /\ \E cls \in InfoClasses : \E h \in HeadersOf(cls) : ConstructInfo(cls, h)
    \/ \E i \in 1..Len(PropertiesOf(instr)) : InvokeInstr(PropertiesOf(instr)[i])
    \/ CardsUsed
    \/ StrippedHeader

SpecInstrument == Init /\ [][NextInstrument]_vars

\* Named instrument classes are defined, a header is supplied, and the
\* predicates, the selector, ObservationInfo and the instance work on it.
NextSelect ==
    \/ /\ ~Supplied
       /\ \E cls \in SelectClasses : RegisterInstr(cls)
    \/ /\ ~Supplied
       /\ \E h \in SelectHeaders : Supply(h)
    \/ \E cls \in PredClasses : CanTranslate(cls)
    \/ DetermineInstr
    \/ ConstructAuto
    \/ /\ Supplied /\ ~live /\ instr = "none"
       /\ \E cls \in {"test", "hsc"} : ConstructInstr(cls, header)
    \/ \E i \in 1..Len(PropertiesOf(instr)) : InvokeInstr(PropertiesOf(instr)[i])
    \/ CardsUsed
    \/ StrippedHeader

SpecSelect == Init /\ [][NextSelect]_vars

\* Two instances and the temporary instance of the FITS predicate.
NextIsolation ==
    \/ /\ ~Supplied
       /\ \E h \in SelectHeaders : Supply(h)
    \/ \E cls \in {"fits", "test", "decam"} : CanTranslate(cls)
    \/ \E cls \in {"test", "hsc"} : ConstructFirst(cls)
    \/ \E cls \in {"test", "hsc"}, h \in {header, OtherHeader} : ConstructTwin(cls, h)
    \/ \E i \in 1..Len(PropertiesOf(instr)) : InvokeOne(PropertiesOf(instr)[i])
    \/ \E i \in 1..Len(PropertiesOf(twin.cls)) : InvokeTwin(PropertiesOf(twin.cls)[i])

SpecIsolation == Init /\ [][NextIsolation]_vars

\* Direct calls of validate_value.
NextValidate ==
    \E v \in ValidateValues, d \in ValidateDefaults, mn \in ValidateMinimums,
       mx \in ValidateMaximums : Validate(v, d, mn, mx)

SpecValidate == Init /\ [][NextValidate]_vars

(***************************************************************************)
(* Properties of the registry and the selector (specification Spec)        *)
(***************************************************************************)
Registered == {translators[i].cls : i \in 1..Len(translators)}
Accepting(h) == {c \in Registered : can_translate(classes, c, h)}

\* position in the registration history at which class c was registered
RegTime(c) == CHOOSE i \in 1..Len(defLog) : defLog[i].cls = c

\* position in the registration history at which name n was first registered
FirstReg(n) ==
    CHOOSE i \in 1..Len(defLog) :
        /\ defLog[i].name = n
        /\ \A j \in 1..(i - 1) : defLog[j].name # n

NameOfRegistered(c) == (CHOOSE i \in 1..Len(translators) : translators[i].cls = c)

\* C1 as stated: determine_translator returns, among the registered classes
\* that accept the header, the one that was registered first.
C1_RegistrationOrder ==
    selected.kind = "ok" =>
        \A c \in Accepting(selected.hdr) : RegTime(selected.cls) <= RegTime(c)

\* C1 amended: determine_translator returns a registered class that accepts
\* the header, and among the accepting registered classes it is the one whose
\* instrument name was first registered earliest; a class defined under an
\* already registered name takes over the position of that name.
C1_FirstNameOrder ==
    selected.kind = "ok" =>
        /\ selected.cls \in Accepting(selected.hdr)
        /\ \A c \in Accepting(selected.hdr) :
              FirstReg(translators[NameOfRegistered(selected.cls)].name)
                 <= FirstReg(translators[NameOfRegistered(c)].name)

\* Two registered classes accept the header and the one returned was
\* registered after the other, under a name that had been registered before.
C1_Witness ==
    /\ selected.kind = "ok"
    /\ Len(defLog) > Len(translators)
    /\ \E c \in Accepting(selected.hdr) : RegTime(c) < RegTime(selected.cls)

DeclaredNames == {classes[c].name : c \in 1..Len(classes)} \cap Names
LastDeclaring(n) ==
    CHOOSE c \in 1..Len(classes) :
        /\ classes[c].name = n
        /\ \A e \in (c + 1)..Len(classes) : classes[e].name # n

\* C3 as stated: the registry holds exactly one entry per distinct declared
\* instrument name, and the entry for n is the most recently defined class
\* that declares n.
C3_LastDeclaredWins ==
    /\ {translators[i].name : i \in 1..Len(translators)} = DeclaredNames
    /\ \A i, j \in 1..Len(translators) :
          translators[i].name = translators[j].name => i = j
    /\ \A i \in 1..Len(translators) :
          translators[i].cls = LastDeclaring(translators[i].name)

\* C4 as stated: defining a class whose body declares no non-null name
\* leaves the registry unchanged.
C4_UnnamedFrame ==
    [][(/\ Len(classes') = Len(classes) + 1
        /\ classes'[Len(classes')].name \in {Undeclared, DeclNone})
       => translators' = translators]_vars

(***************************************************************************)
(* Properties of the synthesized resolvers (specification SpecResolver)    *)
(***************************************************************************)
CalledP == live /\ last.prop = "p"
NonePresent(keys) == \A i \in 1..Len(keys) : header[keys[i]] = Absent

\* C5: a resolver synthesized from a constant-map entry returns the constant
\* for every header, never fails, and leaves the used-fields set as it was.
C5_ConstResolver ==
    (CalledP /\ to_p.kind = "const") =>
        /\ last.kind = "ok"
        /\ last.val = to_p.constant
        /\ last.unit = "none"
        /\ used = last.before

\* The constant resolver ran on an instance that had already recorded a field.
C5_Witness ==
    /\ CalledP
    /\ to_p.kind = "const"
    /\ last.before = {"BAZ"}
    /\ last.val = to_p.constant

\* the header holding only field k of the instance's header
OnlyField(k) == [x \in Keys |-> IF x = k THEN header[k] ELSE Absent]

\* C6: a trivial resolver with an ordered candidate list works from the first
\* candidate present in the header: an invocation never records any other
\* candidate, an invocation that returns records exactly that candidate and
\* returns what it returns when the header holds that field alone; with no
\* default, unit or type coercion the result is that field's stored value.
C6_FirstPresentWins ==
    (CalledP /\ to_p.kind = "trivial" /\ ~NonePresent(to_p.keys)) =>
        \A i \in 1..Len(to_p.keys) :
            (/\ header[to_p.keys[i]] # Absent
             /\ \A j \in 1..(i - 1) : header[to_p.keys[j]] = Absent)
            => /\ used \subseteq last.before \cup {to_p.keys[i]}
               /\ last.kind = "ok" =>
                     /\ used = last.before \cup {to_p.keys[i]}
                     /\ LET o == CallResolver(variant, to_p, OnlyField(to_p.keys[i]), last.before)
                        IN o.kind = "ok" /\ o.val = last.val
                     /\ (to_p.default = None_ /\ to_p.unit = "none" /\ to_p.rtype = "other")
                           => last.val = header[to_p.keys[i]]

\* Both candidates are present with different values; the resolver returned
\* the first one's value and recorded only the first.
C6_Witness ==
    /\ CalledP
    /\ to_p.kind = "trivial"
    /\ to_p.keys = <<"RELHUM", "HUMIDITY">>
    /\ header["RELHUM"] = FloatV(50)
    /\ header["HUMIDITY"] = IntV(150)
    /\ last.kind = "ok"
    /\ last.val = FloatV(50)
    /\ used = {"RELHUM"}

\* type coercion of a declared default, as the claim expects it
CoercedDefault ==
    IF to_p.rtype = "str" THEN PyStr(to_p.default)
    ELSE IF to_p.rtype = "float" THEN PyFloat(to_p.default).val
    ELSE to_p.default

\* C7 as stated: a trivial resolver without unit, when none of its candidate
\* fields is present, returns the declared default (after type coercion)
\* without raising, or fails with KeyError when no default was declared; the
\* used-fields set is unchanged in both cases.
C7_AbsentFieldDefault ==
    (CalledP /\ to_p.kind = "trivial" /\ to_p.unit = "none" /\ NonePresent(to_p.keys)) =>
        /\ used = last.before
        /\ to_p.default # None_ => (last.kind = "ok" /\ last.val = CoercedDefault)
        /\ to_p.default = None_ => last.kind = "KeyError"

NumberOf(x) == IF IsStr(x) THEN ParseFloat(x.s).val ELSE Magnitude(x)

InBounds(x, minimum, maximum) ==
    /\ x.t = "float"
    /\ minimum # None_ => x.v >= minimum.v
    /\ maximum # None_ => x.v <= maximum.v

\* the first candidate of to_p present in the header
WinningKey ==
    to_p.keys[CHOOSE i \in 1..Len(to_p.keys) :
                 /\ header[to_p.keys[i]] # Absent
                 /\ \A j \in 1..(i - 1) : header[to_p.keys[j]] = Absent]

\* C10: with a default declared, quantity_from_card returns a quantity whose
\* magnitude is the default or the number stored in the header, the latter
\* only when it lies within every declared bound, whether the header stores
\* it as a number or as text; with no default declared the number stored in
\* the header is returned whatever the bounds.
C10_QuantityValidated ==
    (CalledP /\ to_p.kind = "trivial" /\ to_p.unit # "none" /\ last.kind = "ok") =>
        /\ last.unit = to_p.unit
        /\ to_p.default # None_ =>
              \/ last.val = Magnitude(to_p.default)
              \/ /\ last.val = NumberOf(header[WinningKey])
                 /\ InBounds(last.val, to_p.minimum, to_p.maximum)
        /\ to_p.default = None_ => last.val = NumberOf(header[WinningKey])

\* HUMIDITY stored as the text "150" with default 40 and maximum 100: the
\* quantity returned is 40.
C10_Witness ==
    /\ CalledP
    /\ to_p.kind = "trivial"
    /\ to_p.unit = "percent"
    /\ to_p.keys = <<"HUMIDITY">>
    /\ to_p.default = FloatV(40)
    /\ to_p.maximum = FloatV(100)
    /\ header["HUMIDITY"] = StrV(S150)
    /\ last.kind = "ok"
    /\ last.val = FloatV(40)

\* the header value read by to_p stands for a number that validate_value
\* would replace: not-a-number or outside a declared bound
StoredNumberRejected ==
    LET n == NumberOf(header[WinningKey])
    IN \/ n.t = "nan"
       \/ (n.t = "float" /\ ~InBounds(n, to_p.minimum, to_p.maximum))

\* C11 as stated: a trivial resolver without unit and with a declared default
\* returns the default whenever the header value it reads is not-a-number,
\* below the minimum or above the maximum, whether the header stores that
\* number as a number or as text.
C11_AllValuesValidated ==
    (/\ CalledP
     /\ to_p.kind = "trivial"
     /\ to_p.unit = "none"
     /\ to_p.default # None_
     /\ ~NonePresent(to_p.keys)
     /\ StoredNumberRejected)
    => (last.kind = "ok" /\ last.val = CoercedDefault)

\* C12: in astro_metadata_translator a trivial resolver without unit that
\* returns gives text when the property's declared type is str (the text of
\* the number when the header value or the default is a number), a float when
\* the declared type is float (the number a text value spells), and for any
\* other declared type the header value or the default exactly as stored.
C12_TypeCoercion ==
    (/\ CalledP
     /\ variant = "amt"
     /\ to_p.kind = "trivial"
     /\ to_p.unit = "none"
     /\ last.kind = "ok")
    => LET sources == (IF NonePresent(to_p.keys) THEN {} ELSE {header[WinningKey]})
                         \cup (IF to_p.default # None_ THEN {to_p.default} ELSE {})
       IN /\ to_p.rtype = "str" =>
                (IsStr(last.val) /\ \E x \in sources : last.val = PyStr(x))
          /\ to_p.rtype = "float" =>
                (IsFloat(last.val) /\ \E x \in sources : last.val = NumberOf(x))
          /\ to_p.rtype \notin {"str", "float"} => last.val \in sources

\* A property declared str read the integer 150 and returned the text "150";
\* the resolver had a numeric default.
C12_Witness ==
    /\ CalledP
    /\ variant = "amt"
    /\ to_p.kind = "trivial"
    /\ to_p.unit = "none"
    /\ to_p.rtype = "str"
    /\ to_p.default = FloatV(40)
    /\ to_p.maximum = None_
    /\ ~NonePresent(to_p.keys)
    /\ header[WinningKey] = IntV(150)
    /\ last.val = StrV(S150)

\* the class of the instance has no resolver of its own for the property:
\* r is in no mapping table, p has one when the class body maps it or defines
\* to_p by hand
Unmapped(prop) == prop = "r" \/ (prop = "p" /\ clsBody.map = "none" /\ ~clsBody.hand)

\* C13: in astro_metadata_translator, on an instance of a class deriving from
\* MetadataTranslator that has no resolver for a property, invoking the
\* resolver of that property fails with NotImplementedError naming the
\* property, never with KeyError, whatever the header, and leaves the
\* used-fields set as it was.
C13_NotImplemented ==
    (/\ live
     /\ variant = "amt"
     /\ clsBody.parent = "MetadataTranslator"
     /\ Unmapped(last.prop))
    => /\ last.kind = "NotImplementedError"
       /\ last.kind # "KeyError"
       /\ last.val = StrV(<<last.prop>>)
       /\ ~last.warn
       /\ used = last.before

\* to_p of a class without an entry for p was invoked on a header holding
\* fields, after another resolver had recorded one: NotImplementedError
\* naming p, the recorded field still the only one.
C13_Witness ==
    /\ live
    /\ variant = "amt"
    /\ clsBody.parent = "MetadataTranslator"
    /\ clsBody.map = "none"
    /\ last.prop = "p"
    /\ header["HUMIDITY"] = IntV(150)
    /\ last.kind = "NotImplementedError"
    /\ last.val = StrV(<<"p">>)
    /\ last.before = {"BAZ"}
    /\ used = {"BAZ"}

\* C14: on an instance of a class deriving from StubTranslator, invoking the
\* resolver of a property the class does not map emits a warning, returns
\* None without failing, whatever the header, and leaves the used-fields set
\* as it was.
C14_StubResolver ==
    (/\ live
     /\ clsBody.parent = "StubTranslator"
     /\ Unmapped(last.prop))
    => /\ last.kind = "ok"
       /\ last.val = None_
       /\ last.warn
       /\ used = last.before

\* The stub of p ran on a header holding fields after another resolver had
\* recorded one: warning, None, the recorded field still the only one.
C14_Witness ==
    /\ live
    /\ clsBody.parent = "StubTranslator"
    /\ last.prop = "p"
    /\ header["HUMIDITY"] = IntV(150)
    /\ last.kind = "ok"
    /\ last.val = None_
    /\ last.warn
    /\ last.before = {"BAZ"}
    /\ used = {"BAZ"}

\* the resolver the same table entry gives for a property that PROPERTIES
\* lists with a type other than str and float
KnownTwin ==
    IF clsBody.map = "const" THEN MakeConstMapping("other", to_p.constant)
    ELSE MakeTrivialMapping("other", to_p.keys, to_p.default, to_p.minimum, to_p.maximum,
                            to_p.unit)

\* the class defined by the class body is in the registry under its name
InRegistry ==
    \E i \in 1..Len(translators) :
        translators[i].name = clsBody.name /\ translators[i].cls = Len(classes)

\* C15: a class whose mapping table (trivial or constant) has an entry for a
\* property outside PROPERTIES is defined all the same: the class exists, it
\* is registered exactly when it declares a name, astro_metadata_translator
\* has logged a warning, and the resolver synthesized from the entry is
\* attached and returns what the same entry returns for a listed property:
\* the constant, or the stored value of the first candidate field present,
\* which it records.
C15_UnknownProperty ==
    (clsBody.map # "none" /\ ~clsBody.known) =>
        /\ Len(classes) = 1
        /\ InRegistry <=> clsBody.name # Undeclared
        /\ variant = "amt" => logged
        /\ to_p.kind = clsBody.map
        /\ CalledP =>
              /\ LET o == CallResolver(variant, KnownTwin, header, last.before)
                 IN /\ o.kind = last.kind
                    /\ o.val = last.val
                    /\ o.unit = last.unit
                    /\ o.used = used
              /\ clsBody.map = "const" => (last.kind = "ok" /\ last.val = to_p.constant)
              /\ (clsBody.map = "trivial" /\ ~NonePresent(to_p.keys)) =>
                    /\ last.kind = "ok"
                    /\ last.val = header[WinningKey]
                    /\ used = last.before \cup {WinningKey}

\* A named class mapping an unlisted property to HUMIDITY was defined with a
\* warning and registered; its resolver returned the stored integer.
C15_Witness ==
    /\ variant = "amt"
    /\ clsBody.map = "trivial"
    /\ ~clsBody.known
    /\ logged
    /\ InRegistry
    /\ CalledP
    /\ to_p.keys = <<"HUMIDITY">>
    /\ header["HUMIDITY"] = IntV(150)
    /\ last.kind = "ok"
    /\ last.val = IntV(150)
    /\ used = {"HUMIDITY"}

\* C16: the used-fields set of an instance is empty when the instance is
\* constructed, and every resolver invocation on it, returning or failing,
\* leaves in the set every field name that was in it before.
C16_UsedGrows ==
    [][/\ (~live /\ live') => used' = {}
       /\ (live /\ live') => used \subseteq used']_vars

\* A resolver recorded HUMIDITY and then failed converting its text; the
\* field recorded earlier by another resolver is still in the set.
C16_Witness ==
    /\ CalledP
    /\ last.kind = "ValueError"
    /\ last.before = {"BAZ"}
    /\ used = {"BAZ", "HUMIDITY"}

\* C17: an invocation of the resolver that was also the one invoked just
\* before on the same instance returns the same value with the same unit, or
\* fails with the same error, and leaves the used-fields set as the first
\* invocation left it.
C17_Idempotent ==
    [][(/\ live
        /\ live'
        /\ last.prop # "none"
        /\ last'.prop = last.prop)
       => /\ last'.kind = last.kind
          /\ last'.val = last.val
          /\ last'.unit = last.unit
          /\ last'.warn = last.warn
          /\ used' = used]_vars

\* to_p read HUMIDITY on an instance whose set already held HUMIDITY, which
\* only an earlier to_p can have recorded, and the set is unchanged.
C17_Witness ==
    /\ CalledP
    /\ to_p.kind = "trivial"
    /\ to_p.keys = <<"HUMIDITY">>
    /\ header["HUMIDITY"] = IntV(150)
    /\ last.kind = "ok"
    /\ last.before = {"HUMIDITY"}
    /\ used = {"HUMIDITY"}

(***************************************************************************)
(* Properties of the used-fields set of instrument classes and of          *)
(* ObservationInfo (specification SpecInstrument)                          *)
(***************************************************************************)
\* what the set handed out by the last cards_used() call holds now: an alias
\* follows the live set, a copy does not
SnapValue == IF snap.alias THEN used ELSE snap.val

\* C18: the set handed out by cards_used() holds exactly the fields recorded
\* when the call was made, and goes on holding exactly those whatever
\* resolvers are invoked on the instance afterwards.
C18_Snapshot ==
    /\ [](snap.called => SnapValue = snap.at)
    /\ [][(snap' # snap) => (snap'.called /\ snap'.val = used /\ used' = used)]_vars

\* A set was handed out holding one field, and a later invocation recorded
\* another field, which the set handed out does not hold.
C18_Witness ==
    /\ snap.called
    /\ SnapValue = {"TELCODE"}
    /\ used = {"TELCODE", "INSTRUME"}
    /\ last.prop = "instrument"

\* the keys of the instance's header
HeaderKeys == {k \in DOMAIN header : Present(header, k)}

\* C19 as stated: the used-fields set of an instance holds only keys of the
\* instance's header.
C19_UsedInHeader == live => used \subseteq HeaderKeys

\* C20 as stated: on a constructed ObservationInfo strippedHeader() succeeds
\* and returns the supplied header without the fields of cards_used, every
\* other field with its value.
C20_StrippedHeader ==
    (info.state = "ok" /\ info.strip # "none") =>
        /\ info.strip = "ok"
        /\ \A k \in DOMAIN header :
              info.hdr[k] = IF k \in used THEN Absent ELSE header[k]

(***************************************************************************)
(* History, failures and hand-written resolvers (specification             *)
(* SpecResolver)                                                           *)
(***************************************************************************)
\* the resolver the last invocation ran
LastResolver ==
    CASE last.prop = "p" -> to_p
      [] last.prop = "q" -> ToQ
      [] OTHER -> Inherited(variant, clsBody.parent, "r")

\* C26: the outcome of a resolver invocation, value or error, is the one the
\* same resolver gives on a freshly constructed instance over the same
\* header, whatever invocations, successful or failing, came before it.
C26_HistoryIndependent ==
    (live /\ last.prop # "none") =>
        LET fresh == CallResolver(variant, LastResolver, header, {})
        IN /\ last.kind = fresh.kind
           /\ last.val = fresh.val
           /\ last.unit = fresh.unit

\* A trivial resolver returned the value of HUMIDITY on an instance that had
\* already recorded HUMIDITY and BAZ in earlier invocations.
C26_Witness ==
    /\ live
    /\ variant = "amt"
    /\ last.prop = "p"
    /\ to_p.kind = "trivial"
    /\ to_p.keys = <<"HUMIDITY", "RELHUM">>
    /\ last.before = {"HUMIDITY", "BAZ"}
    /\ last.kind = "ok"
    /\ last.val = header["HUMIDITY"]

\* C27: when an invocation of a synthesized trivial resolver (and of
\* quantity_from_card through it) fails, the used-fields set is what it was
\* before the invocation.
C27_UnchangedOnError ==
    (/\ live
     /\ last.prop = "p"
     /\ to_p.kind = "trivial"
     /\ last.kind # "ok")
    => used = last.before

\* C28: a class whose body defines to_p by hand runs that method when to_p
\* is invoked, whatever tables map p.
C28_HandWrittenKept ==
    clsBody.hand =>
        /\ to_p = HandWritten
        /\ (live /\ last.prop = "p") => (last.kind = "ok" /\ last.val = HandWritten.constant)

(***************************************************************************)
(* ObservationInfo construction, subclass tables and moving targets        *)
(* (specification SpecInstrument)                                          *)
(***************************************************************************)
\* C24: constructing an ObservationInfo with a valid translation class
\* completes for every header, whichever resolvers fail.
C24_ConstructionCompletes == info.state # "none" => info.state = "ok"

\* the header field that to_telescope and to_instrument of the class read
FieldRead(cls, prop) ==
    IF prop = "instrument" THEN "INSTRUME"
    ELSE IF cls = "test" THEN "TELCODE" ELSE "TELESCOP"

\* C25: to_telescope of the subclass that redeclares telescope reads the
\* subclass's field TELCODE and never records TELESCOP; to_instrument, which
\* only the ancestor maps, reads INSTRUME on the subclass as on the ancestor;
\* to_telescope of the ancestor still reads TELESCOP.
C25_SubclassOverride ==
    /\ (live /\ instr = "test") => "TELESCOP" \notin used
    /\ (/\ live
        /\ info.state = "none"
        /\ instr \in {"fits", "test"}
        /\ last.prop \in {"telescope", "instrument"})
       => IF Present(header, FieldRead(instr, last.prop))
          THEN /\ last.kind = "ok"
               /\ last.val = header[FieldRead(instr, last.prop)]
               /\ used = last.before \cup {FieldRead(instr, last.prop)}
          ELSE /\ last.kind = "KeyError"
               /\ used = last.before

\* On the header of the test case, to_telescope of the test translator gave
\* LSST after to_instrument had recorded INSTRUME; TELESCOP, which holds
\* JCMT, is not recorded.
C25_Witness ==
    /\ live
    /\ instr = "test"
    /\ last.prop = "telescope"
    /\ last.kind = "ok"
    /\ last.val = StrV(SLsst)
    /\ header["TELESCOP"] = StrV(SJcmt)
    /\ last.before = {"INSTRUME"}
    /\ used = {"INSTRUME", "TELCODE"}

\* the field naming the coordinate frame for to_tracking_radec of the class
FrameField(cls) == IF cls = "megaprime" THEN "OBJRADEC" ELSE "RADESYS"

\* C30: to_tracking_radec of MegaPrimeTranslator, like that of
\* DecamTranslator, on a header whose frame field says gappt in any letter
\* case and with surrounding blanks, returns None without failing and
\* records the frame field and nothing else.
C30_MovingTarget ==
    (/\ live
     /\ info.state = "none"
     /\ instr \in {"megaprime", "decam"}
     /\ last.prop = "tracking_radec"
     /\ Present(header, FrameField(instr))
     /\ StrLower(Strip(header[FrameField(instr)].s)) = <<"g", "a", "p", "p", "t">>)
    => /\ last.kind = "ok"
       /\ last.val = None_
       /\ used = last.before \cup {FrameField(instr)}

(***************************************************************************)
(* The header, the predicates and the selector (specification SpecSelect)  *)
(***************************************************************************)
\* C21: once the caller has supplied the header mapping, no call changes it:
\* not a predicate, not determineTranslator, not the construction of an
\* instance or of an ObservationInfo, not a resolver, not cards_used, not
\* strippedHeader.
C21_HeaderKept == [][Supplied => header' = header]_vars

\* An ObservationInfo was built by the selector, its used fields were
\* listed and stripped from a copy, a predicate was called afterwards, and
\* every used field is still in the caller's header.
C21_Witness ==
    /\ info.state = "ok"
    /\ info.strip = "ok"
    /\ snap.called
    /\ asked.op = "can"
    /\ used = {"TELCODE", "INSTRUME"}
    /\ \A k \in used : Present(header, k) /\ ~Present(info.hdr, k)

FitsFamily == {"fits", "test", "decam"}

\* C23: FitsTranslator.canTranslate answers False when the class declares no
\* supported instrument; otherwise False when reading the instrument raises
\* KeyError, which is when INSTRUME is not in the header; otherwise True
\* exactly when the instrument read equals the supported instrument.
C23_FitsPredicate ==
    (asked.op = "can" /\ asked.cls \in FitsFamily) =>
        /\ asked.kind = "ok"
        /\ IF SupportedInstrument(asked.cls) = None_ THEN ~asked.val
           ELSE IF ~Present(header, "INSTRUME") THEN ~asked.val
           ELSE asked.val <=> header["INSTRUME"] = SupportedInstrument(asked.cls)

\* The predicate of the test translator answered False on a header without
\* INSTRUME that holds other fields.
C23_Witness ==
    /\ asked.op = "can"
    /\ asked.cls = "test"
    /\ asked.kind = "ok"
    /\ ~asked.val
    /\ ~Present(header, "INSTRUME")
    /\ Present(header, "EXP-ID")

\* C29: determineTranslator either returns a registered class or fails with
\* ValueError; no other error comes out of it.
C29_SelectorOutcomes ==
    asked.op = "determine" =>
        /\ asked.kind \in {"ok", "ValueError"}
        /\ asked.kind = "ok" => \E i \in 1..Len(registry) : registry[i] = asked.cls

(***************************************************************************)
(* Two instances (specification SpecIsolation)                             *)
(***************************************************************************)
\* C22: each instance holds the used fields, and its last invocation gave
\* the outcome, that it would have had alone; a step that invokes a resolver
\* on one instance leaves the used fields of the other as they were; an
\* instance created after the FITS predicate ran on the header starts
\* empty.
C22_Isolated ==
    /\ [](/\ live => used = twin.first
          /\ twin.live => twin.used = twin.alone
          /\ (live /\ last.prop # "none") =>
                 LET o == CallInstr(instr, last.prop, header, {})
                 IN last.kind = o.kind /\ last.val = o.val
          /\ (twin.live /\ twin.prop # "none") =>
                 LET o == CallInstr(twin.cls, twin.prop, twin.hdr, {})
                 IN twin.kind = o.kind /\ twin.val = o.val)
    /\ [][/\ (live /\ twin.live /\ last' # last) => twin'.used = twin.used
          /\ (twin.live /\ twin' # twin /\ last' = last) => used' = used]_vars

\* The FITS predicate ran on the header and its temporary instance recorded
\* INSTRUME; two instances of the test translator over that same header
\* were then invoked in turn, and each holds only what it read itself.
C22_Witness ==
    /\ asked.op = "can"
    /\ asked.tmp = {"INSTRUME"}
    /\ live
    /\ twin.live
    /\ instr = "test"
    /\ twin.cls = "test"
    /\ twin.hdr = header
    /\ used = {"TELCODE"}
    /\ twin.used = {"INSTRUME"}

(***************************************************************************)
(* Properties of validate_value (specification SpecValidate)               *)
(***************************************************************************)
\* C9: validate_value returns the default when the value is None or
\* not-a-number, or lies below a set minimum or above a set maximum; in every
\* other case, a value equal to a bound included, it returns the value
\* unchanged.  An out-of-range value is never replaced by the bound.
C9_ValidateValue ==
    vv.called =>
        /\ vv.err = "none"
        /\ IF \/ vv.value = None_
              \/ vv.value = NaN
              \/ (vv.minimum # None_ /\ vv.value.v < vv.minimum.v)
              \/ (vv.maximum # None_ /\ vv.value.v > vv.maximum.v)
           THEN vv.val = vv.default
           ELSE vv.val = vv.value

\* A value above the maximum came back as the default, which differs from
\* the bound.
C9_Witness ==
    /\ vv.called
    /\ vv.value = FloatV(150)
    /\ vv.maximum = FloatV(100)
    /\ vv.default = FloatV(40)
    /\ vv.val = FloatV(40)

====
